---- MODULE Spec2Model ----
\* Session-negotiation hook of the meeting app
\* (src/src/features/video-call/hooks/useWebRTC.ts): the Peer Registry
\* (peersRef), the Participant Roster (participants), the asynchronous
\* signaling handlers and the leave sequence, for every participant of a room.
EXTENDS Integers, Sequences, FiniteSets, TLC

\* ---------------------------------------------------------------- bounds
MaxEvents == 4      \* events from outside: runs of the join effect, signaling events, local candidates
MaxList == 2        \* longest existing-users list the environment sends

\* ---------------------------------------------------------------- values
Users == {"A", "B", "C"}
Local == "A"                       \* the hook under test in the single-hook specification
Remotes == Users \ {Local}
Relay == "relay"
NoConn == 0                        \* peersRef.current.get(id) === undefined
NoStream == 0                      \* stream: null

NameOf(u) == CASE u = "A" -> "Al" [] u = "B" -> "Bo" [] OTHER -> "Cy"

EventNames == {"user-joined", "offer", "answer", "ice-candidate", "user-left",
               "existing-users", "waiting-for-approval", "join-approved",
               "join-rejected", "join-request", "media-status-update"}

NegotiationTypes == {"offer", "answer", "ice-candidate"}

VARIABLES
    participants,      \* [Users -> Seq(Participant)]       useState participants
    peersRef,          \* [Users -> [Users -> conn id]]     peersRef.current
    conns,             \* Seq(connection record): every RTCPeerConnection ever constructed
    connectionStatus,  \* [Users -> status]                 useState connectionStatus
    pendingRequests,   \* [Users -> Seq(request)]           useState pendingRequests
    listeners,         \* [Users -> [EventNames -> Nat]]    handlers registered on the socket
    connected,         \* [Users -> BOOLEAN]                socket.connect() / disconnect()
    active,            \* [Users -> BOOLEAN]                the join effect is mounted
    resuming,          \* [Users -> Seq(record)]            offer handlers queued at `await createPeerConnection`
    sent,              \* Seq(message)                      every socket.emit, in order
    uncaught,          \* [Users -> Nat]                    rejections that escaped a handler
    inbox,             \* [Users -> Seq(message)]          membership events of the relay on their way to a client
    relayPos,          \* [Users -> Nat]                    join-room / leave-room of each sender the relay has taken
    delivered,         \* [Users -> [Users -> Nat]]        messages of each ordered pair the relay has delivered
    room,              \* Seq(Users)                        relay-side membership, in join order
    nEvents,           \* events from outside so far
    last,              \* history: the event or call handled last in the session, whether its id had a PeerLink or a request, its list (of a decision: the pending list before it)
    left,              \* history: ids the local hook removed on user-left and has not been told of since
    outgoing           \* history: [Users -> track]  the video track passed to replaceTrack last, or the camera track

hookVars == <<participants, peersRef, conns, connectionStatus, pendingRequests, listeners,
              connected, active, resuming, sent, uncaught>>
relayVars == <<inbox, relayPos, delivered, room>>
histVars == <<last, left, outgoing>>
vars == <<participants, peersRef, conns, connectionStatus, pendingRequests, listeners, connected,
          active, resuming, sent, uncaught, inbox, relayPos, delivered, room,
          nEvents, last, left, outgoing>>

\* ---------------------------------------------------------------- messages
Msg(type, from, to, name, users) ==
    [type |-> type, from |-> from, to |-> to, name |-> name, users |-> users]

User(id) == [userId |-> id, userName |-> NameOf(id)]

\* ---------------------------------------------------------------- roster
NewParticipant(id, name) ==
    [id |-> id, name |-> name, stream |-> NoStream, isMicOn |-> TRUE, isCameraOn |-> TRUE]

RosterIds(r) == {r[i].id : i \in 1..Len(r)}

UpsertAlways(r, id, name) == Append(r, NewParticipant(id, name))

\* setParticipants(prev => prev.some(p => p.id === id) ? prev : [...prev, {...}])
Upsert(r, id, name) ==
    IF id \in RosterIds(r) THEN r ELSE Append(r, NewParticipant(id, name))

\* setParticipants(prev => prev.filter(p => p.id !== id))
RemoveById(r, id) == SelectSeq(r, LAMBDA p : p.id # id)

\* index === self.findIndex(u => u.userId === user.userId)
FindIndex(s, id) == CHOOSE i \in 1..Len(s) : s[i].userId = id /\ \A j \in 1..(i-1) : s[j].userId # id

RECURSIVE FilterFirst(_, _)
FilterFirst(s, i) ==
    IF i > Len(s) THEN <<>>
    ELSE (IF FindIndex(s, s[i].userId) = i THEN <<s[i]>> ELSE <<>>) \o FilterFirst(s, i + 1)

EveryUser(users) == users

uniqueUsers(users) == FilterFirst(users, 1)

SnapshotFrom(users) ==
    [i \in 1..Len(uniqueUsers(users)) |->
        NewParticipant(uniqueUsers(users)[i].userId, uniqueUsers(users)[i].userName)]

ApplyRemoteTrackAdds(r, id, stream) ==
    IF id \in RosterIds(r)
    THEN [i \in 1..Len(r) |-> IF r[i].id = id THEN [r[i] EXCEPT !.stream = stream] ELSE r[i]]
    ELSE Append(r, [NewParticipant(id, "") EXCEPT !.stream = stream])

\* prev.map(p => p.id === userId ? {...p, stream} : p)
ApplyRemoteTrack(r, id, stream) ==
    [i \in 1..Len(r) |-> IF r[i].id = id THEN [r[i] EXCEPT !.stream = stream] ELSE r[i]]

\* prev.map(p => p.id === data.userId
\*                ? {...p, [data.kind === 'audio' ? 'isMicOn' : 'isCameraOn']: data.isOn} : p)
ApplyMediaStatus(r, id, kind, isOn) ==
    [i \in 1..Len(r) |->
        IF r[i].id = id
        THEN (IF kind = "audio" THEN [r[i] EXCEPT !.isMicOn = isOn]
                                ELSE [r[i] EXCEPT !.isCameraOn = isOn])
        ELSE r[i]]

\* ---------------------------------------------------------------- connections
Op(op, to) == [op |-> op, to |-> to]

NewConnAlwaysOffers(me, userId, userName, isInitiator) ==
    [owner |-> me, peer |-> userId, name |-> userName, initiator |-> isInitiator,
     sig |-> "new", localDesc |-> "none", remoteDesc |-> "none",
     chain |-> <<[op |-> "createOffer", to |-> userId]>>,
     offers |-> 0, answers |-> 0, cands |-> 0, video |-> "camera", state |-> "new"]

\* new RTCPeerConnection(...) with the closure variables of createPeerConnection;
\* the tracks added are those of the local stream the join effect closed over,
\* whose video track is the camera track
NewConn(me, userId, userName, isInitiator) ==
    [owner |-> me, peer |-> userId, name |-> userName, initiator |-> isInitiator,
     sig |-> "new", localDesc |-> "none", remoteDesc |-> "none",
     chain |-> IF isInitiator THEN <<Op("createOffer", userId)>> ELSE <<>>,
     offers |-> 0, answers |-> 0, cands |-> 0, video |-> "camera", state |-> "new"]

\* pc.close(): the connection is closed for good
Close(c) == [c EXCEPT !.sig = "closed"]

IsOpen(c) == c.sig # "closed"

\* The promise of an operation in flight is settled only while the connection
\* is open: a handler awaiting an operation of a closed connection stays
\* suspended for ever.
Settles(c) == IsOpen(c) /\ c.chain # <<>>

Registered(me) == {peersRef[me][id] : id \in Users} \ {NoConn}

Emit(m) == sent' = Append(sent, m)

\* ---------------------------------------------------------------- createPeerConnection
HasPeerNever(me, userId) == FALSE

\* if (peersRef.current.has(userId)) return;
HasPeer(me, userId) == peersRef[me][userId] # NoConn

\* The synchronous part of createPeerConnection: the guard, the construction
\* and the registration; the initiator's createOffer is the first operation
\* on the new connection's chain.
createPeerConnection(me, userId, userName, isInitiator) ==
    IF HasPeer(me, userId)
    THEN UNCHANGED <<peersRef, conns>>
    ELSE /\ conns' = Append(conns, NewConn(me, userId, userName, isInitiator))
         /\ peersRef' = [peersRef EXCEPT ![me][userId] = Len(conns) + 1]

\* pc.<operation>(...) called by a handler: queued on the connection's chain
Enqueue(i, o) == conns' = [conns EXCEPT ![i].chain = Append(@, o)]

\* ---------------------------------------------------------------- RTCPeerConnection operations
\* Signaling states in which the operation at the head of the chain is accepted
\* ("new" is the stable state of a connection that never negotiated).
Valid(c, op) ==
    CASE op = "createOffer"     -> c.sig \in {"new", "stable", "have-local-offer"}
      [] op = "setLocalOffer"   -> c.sig \in {"new", "stable", "have-local-offer"}
      [] op = "setRemoteOffer"  -> c.sig \in {"new", "stable", "have-remote-offer", "have-local-offer"}
      [] op = "createAnswer"    -> c.sig = "have-remote-offer"
      [] op = "setLocalAnswer"  -> c.sig = "have-remote-offer"
      [] op = "setRemoteAnswer" -> c.sig = "have-local-offer"
      [] op = "addIceCandidate" -> c.remoteDesc # "none"

\* The effect of the accepted operation on the connection
Apply(c, op) ==
    CASE op = "setLocalOffer"   -> [c EXCEPT !.sig = "have-local-offer", !.localDesc = "offer"]
      [] op = "setRemoteOffer"  -> [c EXCEPT !.sig = "have-remote-offer", !.remoteDesc = "offer",
                                             !.localDesc = IF c.sig = "have-local-offer" THEN "none" ELSE @,
                                             !.offers = @ + 1]
      [] op = "setLocalAnswer"  -> [c EXCEPT !.sig = "stable", !.localDesc = "answer", !.answers = @ + 1]
      [] op = "setRemoteAnswer" -> [c EXCEPT !.sig = "stable", !.remoteDesc = "answer"]
      [] op = "addIceCandidate" -> [c EXCEPT !.cands = @ + 1]
      [] OTHER -> c

\* What the awaiting handler calls next on the same connection
Continuation(o) ==
    CASE o.op = "createOffer"    -> <<Op("setLocalOffer", o.to)>>
      [] o.op = "setRemoteOffer" -> <<Op("createAnswer", o.to)>>
      [] o.op = "createAnswer"   -> <<Op("setLocalAnswer", o.to)>>
      [] OTHER -> <<>>

EmissionEchoesAnswer(c, o) ==
    CASE o.op = "setLocalOffer"   -> <<Msg("offer", c.owner, c.peer, c.name, <<>>)>>
      [] o.op = "setLocalAnswer"  -> <<Msg("answer", c.owner, o.to, "", <<>>)>>
      [] o.op = "setRemoteAnswer" -> <<Msg("answer", c.owner, o.to, "", <<>>)>>
      [] OTHER -> <<>>

\* socket.emit("offer", {to: userId, offer, userName}) / socket.emit("answer", {to: data.from, answer})
Emission(c, o) ==
    CASE o.op = "setLocalOffer"  -> <<Msg("offer", c.owner, c.peer, c.name, <<>>)>>
      [] o.op = "setLocalAnswer" -> <<Msg("answer", c.owner, o.to, "", <<>>)>>
      [] OTHER -> <<>>

\* try { ... } catch around the operation in the handler that awaits it
Caught(op) == op \in {"createOffer", "setLocalOffer", "addIceCandidate"}

\* The operation at the head of the chain resolves and its handler runs on to
\* its next await.
OpSucceeds(i) ==
    /\ i \in 1..Len(conns)
    /\ Settles(conns[i])
    /\ resuming[conns[i].owner] = <<>>
    /\ Valid(conns[i], Head(conns[i].chain).op)
    /\ LET c == conns[i]
           o == Head(c.chain)
           c1 == Apply([c EXCEPT !.chain = Tail(@)], o.op)
       IN /\ conns' = [conns EXCEPT ![i] = [c1 EXCEPT !.chain = @ \o Continuation(o)]]
          /\ sent' = sent \o Emission(c, o)
    /\ UNCHANGED <<participants, peersRef, connectionStatus, pendingRequests, listeners, connected,
                   active, resuming, uncaught, relayVars, nEvents, histVars>>

\* The operation at the head of the chain rejects: in a wrong signaling state
\* always, otherwise for a reason of the platform (malformed description,
\* internal error).
OpFails(i) ==
    /\ i \in 1..Len(conns)
    /\ Settles(conns[i])
    /\ resuming[conns[i].owner] = <<>>
    /\ LET c == conns[i]
           o == Head(c.chain)
       IN /\ conns' = [conns EXCEPT ![i].chain = Tail(@)]
          /\ uncaught' = [uncaught EXCEPT ![c.owner] = IF Caught(o.op) THEN @ ELSE @ + 1]
    /\ UNCHANGED <<participants, peersRef, connectionStatus, pendingRequests, listeners, connected,
                   active, resuming, sent, relayVars, nEvents, histVars>>

CandidateMsgToOther(c) ==
    Msg("ice-candidate", c.owner, CHOOSE u \in Users : u \notin {c.owner, c.peer}, "", <<>>)

\* socket.emit("ice-candidate", {roomId, to: userId, candidate})
CandidateMsg(c) == Msg("ice-candidate", c.owner, c.peer, "", <<>>)

\* pc.onicecandidate
LocalCandidate(i) ==
    /\ i \in 1..Len(conns)
    /\ IsOpen(conns[i])
    /\ conns[i].localDesc # "none"
    /\ nEvents < MaxEvents
    /\ resuming[conns[i].owner] = <<>>
    /\ Emit(CandidateMsg(conns[i]))
    /\ nEvents' = nEvents + 1
    /\ UNCHANGED <<participants, peersRef, conns, connectionStatus, pendingRequests, listeners, connected,
                   active, resuming, uncaught, relayVars, histVars>>

\* pc.ontrack
RemoteTrack(i) ==
    /\ i \in 1..Len(conns)
    /\ IsOpen(conns[i])
    /\ conns[i].remoteDesc # "none"
    /\ resuming[conns[i].owner] = <<>>
    /\ participants' = [participants EXCEPT ![conns[i].owner] = ApplyRemoteTrack(@, conns[i].peer, i)]
    /\ UNCHANGED <<peersRef, conns, connectionStatus, pendingRequests, listeners, connected, active,
                   resuming, sent, uncaught, relayVars, nEvents, histVars>>

\* ---------------------------------------------------------------- signaling handlers
\* Each handler gives the next value of the hook's variables.
OnUserJoined(me, data) ==
    /\ participants' = [participants EXCEPT ![me] = Upsert(@, data.from, data.name)]
    /\ createPeerConnection(me, data.from, data.name, TRUE)
    /\ UNCHANGED <<connectionStatus, pendingRequests, listeners, connected, active, resuming, sent, uncaught>>

OnOffer(me, data) ==
    /\ participants' = [participants EXCEPT ![me] = Upsert(@, data.from, data.name)]
    /\ IF peersRef[me][data.from] = NoConn
       THEN /\ createPeerConnection(me, data.from, data.name, FALSE)
            /\ resuming' = [resuming EXCEPT ![me] = Append(@, [from |-> data.from])]
       ELSE /\ Enqueue(peersRef[me][data.from], Op("setRemoteOffer", data.from))
            /\ UNCHANGED <<peersRef, resuming>>
    /\ UNCHANGED <<connectionStatus, pendingRequests, listeners, connected, active, sent, uncaught>>

\* The offer handler after `await createPeerConnection(...)`:
\* pc = peersRef.current.get(data.from); if (pc) { await pc.setRemoteDescription(...) ... }
ResumeOffer(me) ==
    /\ resuming[me] # <<>>
    /\ LET r == Head(resuming[me])
       IN IF peersRef[me][r.from] # NoConn
          THEN Enqueue(peersRef[me][r.from], Op("setRemoteOffer", r.from))
          ELSE UNCHANGED conns
    /\ resuming' = [resuming EXCEPT ![me] = Tail(@)]
    /\ UNCHANGED <<participants, peersRef, connectionStatus, pendingRequests, listeners, connected,
                   active, sent, uncaught, relayVars, nEvents, histVars>>

OnAnswerCreates(me, data) ==
    /\ IF peersRef[me][data.from] # NoConn
       THEN /\ Enqueue(peersRef[me][data.from], Op("setRemoteAnswer", data.from))
            /\ UNCHANGED peersRef
       ELSE createPeerConnection(me, data.from, "", FALSE)
    /\ UNCHANGED <<participants, connectionStatus, pendingRequests, listeners, connected,
                   active, resuming, sent, uncaught>>

OnAnswerDrops(me, data) ==
    UNCHANGED <<participants, peersRef, conns, connectionStatus, pendingRequests, listeners,
                connected, active, resuming, sent, uncaught>>

OnAnswer(me, data) ==
    /\ IF peersRef[me][data.from] # NoConn
       THEN Enqueue(peersRef[me][data.from], Op("setRemoteAnswer", data.from))
       ELSE UNCHANGED conns
    /\ UNCHANGED <<participants, peersRef, connectionStatus, pendingRequests, listeners, connected,
                   active, resuming, sent, uncaught>>

OnIceCandidateCreates(me, data) ==
    /\ IF peersRef[me][data.from] # NoConn
       THEN /\ Enqueue(peersRef[me][data.from], Op("addIceCandidate", data.from))
            /\ UNCHANGED peersRef
       ELSE createPeerConnection(me, data.from, "", FALSE)
    /\ UNCHANGED <<participants, connectionStatus, pendingRequests, listeners, connected,
                   active, resuming, sent, uncaught>>

OnIceCandidate(me, data) ==
    /\ IF peersRef[me][data.from] # NoConn
       THEN Enqueue(peersRef[me][data.from], Op("addIceCandidate", data.from))
       ELSE UNCHANGED conns
    /\ UNCHANGED <<participants, peersRef, connectionStatus, pendingRequests, listeners, connected,
                   active, resuming, sent, uncaught>>

OnUserLeftKeepsOpen(me, data) ==
    /\ peersRef' = [peersRef EXCEPT ![me][data.from] = NoConn]
    /\ participants' = [participants EXCEPT ![me] = RemoveById(@, data.from)]
    /\ UNCHANGED <<conns, connectionStatus, pendingRequests, listeners, connected, active,
                   resuming, sent, uncaught>>

OnUserLeft(me, data) ==
    /\ IF peersRef[me][data.from] # NoConn
       THEN /\ conns' = [conns EXCEPT ![peersRef[me][data.from]] = Close(@)]
            /\ peersRef' = [peersRef EXCEPT ![me][data.from] = NoConn]
       ELSE UNCHANGED <<conns, peersRef>>
    /\ participants' = [participants EXCEPT ![me] = RemoveById(@, data.from)]
    /\ UNCHANGED <<connectionStatus, pendingRequests, listeners, connected, active, resuming, sent, uncaught>>

OnExistingUsersOffering(me, data) ==
    LET us == uniqueUsers(data.users)
    IN /\ participants' = [participants EXCEPT ![me] = SnapshotFrom(data.users)]
       /\ connectionStatus' = [connectionStatus EXCEPT ![me] = "joined"]
       /\ conns' = conns \o [k \in 1..Len(us) |-> NewConn(me, us[k].userId, us[k].userName, TRUE)]
       /\ peersRef' = [peersRef EXCEPT ![me] =
                          [id \in Users |->
                              IF \E k \in 1..Len(us) : us[k].userId = id
                              THEN Len(conns) + (CHOOSE k \in 1..Len(us) : us[k].userId = id)
                              ELSE @[id]]]
       /\ UNCHANGED <<pendingRequests, listeners, connected, active, resuming, sent, uncaught>>

OnExistingUsers(me, data) ==
    /\ participants' = [participants EXCEPT ![me] = SnapshotFrom(data.users)]
    /\ connectionStatus' = [connectionStatus EXCEPT ![me] = "joined"]
    /\ UNCHANGED <<peersRef, conns, pendingRequests, listeners, connected, active,
                   resuming, sent, uncaught>>

OnWaitingForApproval(me, data) ==
    /\ connectionStatus' = [connectionStatus EXCEPT ![me] = "waiting"]
    /\ UNCHANGED <<participants, peersRef, conns, pendingRequests, listeners, connected,
                   active, resuming, sent, uncaught>>

OnJoinApproved(me, data) ==
    /\ connectionStatus' = [connectionStatus EXCEPT ![me] = "joined"]
    /\ UNCHANGED <<participants, peersRef, conns, pendingRequests, listeners, connected,
                   active, resuming, sent, uncaught>>

OnJoinRejectedStaysConnected(me, data) ==
    /\ connectionStatus' = [connectionStatus EXCEPT ![me] = "rejected"]
    /\ UNCHANGED <<participants, peersRef, conns, pendingRequests, listeners, connected,
                   active, resuming, sent, uncaught>>

\* setConnectionStatus('rejected'); socket.disconnect();
OnJoinRejected(me, data) ==
    /\ connectionStatus' = [connectionStatus EXCEPT ![me] = "rejected"]
    /\ connected' = [connected EXCEPT ![me] = FALSE]
    /\ UNCHANGED <<participants, peersRef, conns, pendingRequests, listeners,
                   active, resuming, sent, uncaught>>

\* setPendingRequests(prev => [...prev, data])
OnJoinRequest(me, data) ==
    /\ pendingRequests' = [pendingRequests EXCEPT ![me] =
                              Append(@, [userId |-> data.from, userName |-> data.name])]
    /\ UNCHANGED <<participants, peersRef, conns, connectionStatus, listeners, connected,
                   active, resuming, sent, uncaught>>

OnMediaStatusUpdate(me, data) ==
    /\ participants' = [participants EXCEPT ![me] =
                            ApplyMediaStatus(@, data.from, data.kind, data.isOn)]
    /\ UNCHANGED <<peersRef, conns, connectionStatus, pendingRequests, listeners, connected,
                   active, resuming, sent, uncaught>>

\* socket.io calls the handlers registered for the event's name
Dispatch(me, m) ==
    CASE m.type = "user-joined"    -> OnUserJoined(me, m)
      [] m.type = "offer"          -> OnOffer(me, m)
      [] m.type = "answer"         -> OnAnswer(me, m)
      [] m.type = "ice-candidate"  -> OnIceCandidate(me, m)
      [] m.type = "user-left"      -> OnUserLeft(me, m)
      [] m.type = "existing-users" -> OnExistingUsers(me, m)
      [] m.type = "waiting-for-approval" -> OnWaitingForApproval(me, m)
      [] m.type = "join-approved"  -> OnJoinApproved(me, m)
      [] m.type = "join-rejected"  -> OnJoinRejected(me, m)
      [] m.type = "join-request"   -> OnJoinRequest(me, m)
      [] m.type = "media-status-update" -> OnMediaStatusUpdate(me, m)

\* ---------------------------------------------------------------- outgoing track and connection state
\* The video tracks a caller passes to replaceTrack
Tracks == {"camera", "screen"}

ReplaceSenderReopens(c, newTrack) == Close([c EXCEPT !.video = newTrack])

\* sender = pc.getSenders().find(s => s.track?.kind === newTrack.kind);
\* sender.replaceTrack(newTrack)
ReplaceSender(c, newTrack) == [c EXCEPT !.video = newTrack]

\* replaceTrack(newTrack): the swap on every connection of the registry; the
\* swaps of successive calls take effect in the order of the calls.
replaceTrack(me, newTrack) ==
    /\ nEvents < MaxEvents
    /\ resuming[me] = <<>>
    /\ conns' = [i \in 1..Len(conns) |->
                    IF i \in Registered(me) THEN ReplaceSender(conns[i], newTrack) ELSE conns[i]]
    /\ nEvents' = nEvents + 1
    /\ last' = [type |-> "replace-track", from |-> newTrack,
                had |-> last.type = "replace-track" /\ last.from = "screen", users |-> <<>>]
    /\ outgoing' = [outgoing EXCEPT ![me] = newTrack]
    /\ UNCHANGED <<participants, peersRef, connectionStatus, pendingRequests, listeners,
                   connected, active, resuming, sent, uncaught, relayVars, left>>

\* pc.connectionState of an open connection
ConnectionStates == {"new", "connecting", "connected", "disconnected", "failed"}

OnConnectionStateChangeRemoves(i, st) ==
    IF st \in {"failed", "disconnected"}
    THEN /\ conns' = [conns EXCEPT ![i] = Close([@ EXCEPT !.state = st])]
         /\ peersRef' = [peersRef EXCEPT ![conns[i].owner][conns[i].peer] = NoConn]
         /\ participants' = [participants EXCEPT ![conns[i].owner] = RemoveById(@, conns[i].peer)]
    ELSE /\ conns' = [conns EXCEPT ![i].state = st]
         /\ UNCHANGED <<participants, peersRef>>

\* pc.onconnectionstatechange: the new state is logged, also when it is
\* failed or disconnected
OnConnectionStateChange(i, st) ==
    /\ conns' = [conns EXCEPT ![i].state = st]
    /\ UNCHANGED <<participants, peersRef>>

\* The network moves an open connection to another connection state
ConnectionStateChange(i, st) ==
    /\ i \in 1..Len(conns)
    /\ IsOpen(conns[i])
    /\ st # conns[i].state
    /\ nEvents < MaxEvents
    /\ resuming[conns[i].owner] = <<>>
    /\ OnConnectionStateChange(i, st)
    /\ nEvents' = nEvents + 1
    /\ UNCHANGED <<connectionStatus, pendingRequests, listeners, connected, active,
                   resuming, sent, uncaught, relayVars, histVars>>

\* ---------------------------------------------------------------- admission decisions of the host
WithoutFirstRequest(reqs, userId) == IF reqs = <<>> THEN reqs ELSE Tail(reqs)

WithoutOneRequest(reqs, userId) ==
    IF \E k \in 1..Len(reqs) : reqs[k].userId = userId
    THEN LET k == CHOOSE k \in 1..Len(reqs) :
                      reqs[k].userId = userId /\ \A j \in 1..(k - 1) : reqs[j].userId # userId
         IN SubSeq(reqs, 1, k - 1) \o SubSeq(reqs, k + 1, Len(reqs))
    ELSE reqs

\* prev.filter(req => req.userId !== userId)
WithoutRequest(reqs, userId) == SelectSeq(reqs, LAMBDA req : req.userId # userId)

Pending(me, userId) == \E k \in 1..Len(pendingRequests[me]) : pendingRequests[me][k].userId = userId

\* The decision callbacks: socket.emit(decision, {userId, roomId}) and the
\* removal of the requests of userId.
Decide(me, decision, userId) ==
    /\ nEvents < MaxEvents
    /\ resuming[me] = <<>>
    /\ Emit(Msg(decision, me, Relay, "", <<[userId |-> userId, userName |-> ""]>>))
    /\ pendingRequests' = [pendingRequests EXCEPT ![me] = WithoutRequest(@, userId)]
    /\ nEvents' = nEvents + 1
    /\ last' = [type |-> decision, from |-> userId, had |-> Pending(me, userId),
                users |-> pendingRequests[me]]
    /\ UNCHANGED <<participants, peersRef, conns, connectionStatus, listeners, connected,
                   active, resuming, uncaught, relayVars, left, outgoing>>

admitUser(me, userId) == Decide(me, "admit-user", userId)

rejectUser(me, userId) == Decide(me, "reject-user", userId)

\* ---------------------------------------------------------------- join effect and its cleanup
AllOff == [e \in EventNames |-> 0]

HandledEvents == {"user-joined", "offer", "answer", "ice-candidate", "user-left",
                  "existing-users", "waiting-for-approval", "join-approved",
                  "join-rejected", "join-request", "media-status-update"}

\* socket.on(name, handler) for every handled event
RegisterAll(l) == [e \in EventNames |-> IF e \in HandledEvents THEN l[e] + 1 ELSE l[e]]

DeregisterAllButOffer(l) ==
    [e \in EventNames |-> IF e \in HandledEvents \ {"offer"} THEN 0 ELSE l[e]]

DeregisterNone(l) == l

\* socket.off(name) for every handled event
Deregister(l) == [e \in EventNames |-> IF e \in HandledEvents THEN 0 ELSE l[e]]

CloseNone(me) == conns

\* peersRef.current.forEach((pc) => pc.close())
CloseAll(me) ==
    [i \in 1..Len(conns) |-> IF i \in Registered(me) THEN Close(conns[i]) ELSE conns[i]]

KeepAll(me) == peersRef[me]

\* peersRef.current.clear()
Clear(me) == [id \in Users |-> NoConn]

\* No event has been handled in the session yet
NoEvent == [type |-> "none", from |-> Relay, had |-> FALSE, users |-> <<>>]

Join(me) ==
    /\ ~active[me]
    /\ nEvents < MaxEvents
    /\ resuming[me] = <<>>
    /\ connected' = [connected EXCEPT ![me] = TRUE]
    /\ Emit(Msg("join-room", me, Relay, NameOf(me), <<>>))
    /\ listeners' = [listeners EXCEPT ![me] = RegisterAll(@)]
    /\ active' = [active EXCEPT ![me] = TRUE]
    /\ nEvents' = nEvents + 1
    /\ last' = NoEvent
    /\ UNCHANGED <<participants, peersRef, conns, connectionStatus, pendingRequests, resuming,
                   uncaught, relayVars, left, outgoing>>

Leave(me) ==
    /\ active[me]
    /\ resuming[me] = <<>>
    /\ listeners' = [listeners EXCEPT ![me] = Deregister(@)]
    /\ Emit(Msg("leave-room", me, Relay, "", <<>>))
    /\ connected' = [connected EXCEPT ![me] = FALSE]
    /\ conns' = CloseAll(me)
    /\ peersRef' = [peersRef EXCEPT ![me] = Clear(me)]
    /\ active' = [active EXCEPT ![me] = FALSE]
    /\ UNCHANGED <<participants, connectionStatus, pendingRequests, resuming, uncaught, relayVars,
                   nEvents, histVars>>

\* ---------------------------------------------------------------- the local hook and its environment
\* The relay delivers an event to the local hook; the environment chooses it.
\* The ids that user-left events removed from the roster or the registry,
\* until a membership event names them again
Forget(m) ==
    CASE m.type = "user-left" ->
            IF m.from \in RosterIds(participants[Local]) \/ peersRef[Local][m.from] # NoConn
            THEN left \cup {m.from} ELSE left
      [] m.type = "user-joined" -> left \ {m.from}
      [] m.type = "existing-users" -> left \ {m.users[i].userId : i \in 1..Len(m.users)}
      [] OTHER -> left

\* Whether the id of the event had a PeerLink when the event arrived
Had(m) == m.from \in Users /\ peersRef[Local][m.from] # NoConn

EnvDeliver(m) ==
    /\ nEvents < MaxEvents
    /\ connected[Local]
    /\ listeners[Local][m.type] > 0
    /\ Dispatch(Local, m)
    /\ nEvents' = nEvents + 1
    /\ last' = [type |-> m.type, from |-> m.from, had |-> Had(m), users |-> m.users]
    /\ left' = Forget(m)
    /\ UNCHANGED <<relayVars, outgoing>>

EnvUserJoined == \E id \in Remotes : EnvDeliver(Msg("user-joined", id, Local, NameOf(id), <<>>))
EnvOffer == \E id \in Remotes : EnvDeliver(Msg("offer", id, Local, NameOf(id), <<>>))
EnvAnswer == \E id \in Remotes : EnvDeliver(Msg("answer", id, Local, "", <<>>))
EnvIceCandidate == \E id \in Remotes : EnvDeliver(Msg("ice-candidate", id, Local, "", <<>>))
EnvUserLeft == \E id \in Remotes : EnvDeliver(Msg("user-left", id, Local, NameOf(id), <<>>))

UserLists == UNION {[1..n -> {User(id) : id \in Remotes}] : n \in 0..MaxList}

EnvExistingUsers == \E l \in UserLists : EnvDeliver(Msg("existing-users", Relay, Local, "", l))

\* ---------------------------------------------------------------- admission and roster events
EnvWaitingForApproval == EnvDeliver(Msg("waiting-for-approval", Relay, Local, "", <<>>))
EnvJoinApproved == EnvDeliver(Msg("join-approved", Relay, Local, "", <<>>))
EnvJoinRejected == EnvDeliver(Msg("join-rejected", Relay, Local, "", <<>>))
EnvJoinRequest == \E id \in Remotes : EnvDeliver(Msg("join-request", id, Local, NameOf(id), <<>>))

\* {userId, kind, isOn}
MediaStatus(id, kind, isOn) ==
    [type |-> "media-status-update", from |-> id, to |-> Local, name |-> "", users |-> <<>>,
     kind |-> kind, isOn |-> isOn]

Kinds == {"audio", "video"}

EnvMediaStatusUpdate ==
    \E id \in Remotes : \E kind \in Kinds : \E isOn \in BOOLEAN :
        EnvDeliver(MediaStatus(id, kind, isOn))

\* Lists in which an id may come with any name
Names == {NameOf(id) : id \in Remotes}

NamedUsers == [userId : Remotes, userName : Names]

NamedUserLists == UNION {[1..n -> NamedUsers] : n \in 0..MaxList}

EnvExistingUsersNamed ==
    \E l \in NamedUserLists : EnvDeliver(Msg("existing-users", Relay, Local, "", l))

Init ==
    /\ participants = [u \in Users |-> <<>>]
    /\ peersRef = [u \in Users |-> [id \in Users |-> NoConn]]
    /\ conns = <<>>
    /\ connectionStatus = [u \in Users |-> "connecting"]
    /\ pendingRequests = [u \in Users |-> <<>>]
    /\ listeners = [u \in Users |-> AllOff]
    /\ connected = [u \in Users |-> FALSE]
    /\ active = [u \in Users |-> FALSE]
    /\ resuming = [u \in Users |-> <<>>]
    /\ sent = <<>>
    /\ uncaught = [u \in Users |-> 0]
    /\ inbox = [u \in Users |-> <<>>]
    /\ delivered = [u \in Users |-> [s \in Users |-> 0]]
    /\ relayPos = [u \in Users |-> 0]
    /\ room = <<>>
    /\ nEvents = 0
    /\ last = NoEvent
    /\ left = {}
    /\ outgoing = [u \in Users |-> "camera"]

Next ==
    \/ Join(Local)
    \/ Leave(Local)
    \/ EnvUserJoined
    \/ EnvOffer
    \/ EnvAnswer
    \/ EnvIceCandidate
    \/ EnvUserLeft
    \/ EnvExistingUsers
    \/ ResumeOffer(Local)
    \/ \E i \in 1..Len(conns) : OpSucceeds(i)
    \/ \E i \in 1..Len(conns) : OpFails(i)
    \/ \E i \in 1..Len(conns) : LocalCandidate(i)
    \/ \E i \in 1..Len(conns) : RemoteTrack(i)

Spec == Init /\ [][Next]_vars

\* ---------------------------------------------------------------- the session of the local hook
\* The local hook with the admission events of the relay, the decisions of a
\* host, roster snapshots, and the membership and offer events that build the
\* roster and the registry.
NextSession ==
    \/ Join(Local)
    \/ Leave(Local)
    \/ EnvWaitingForApproval
    \/ EnvJoinApproved
    \/ EnvJoinRejected
    \/ EnvJoinRequest
    \/ \E id \in Remotes : admitUser(Local, id)
    \/ \E id \in Remotes : rejectUser(Local, id)
    \/ EnvExistingUsers
    \/ EnvUserJoined
    \/ EnvOffer
    \/ ResumeOffer(Local)
    \/ \E i \in 1..Len(conns) : OpSucceeds(i)

SpecSession == Init /\ [][NextSession]_vars

\* ---------------------------------------------------------------- the roster of the local hook
\* The local hook with roster snapshots whose lists may repeat an id under any
\* name, between the membership events that add and remove single entries.
NextRoster ==
    \/ Join(Local)
    \/ Leave(Local)
    \/ EnvExistingUsersNamed
    \/ EnvUserJoined
    \/ EnvUserLeft
    \/ \E i \in 1..Len(conns) : OpSucceeds(i)

SpecRoster == Init /\ [][NextRoster]_vars

\* ---------------------------------------------------------------- the roster entries of the local hook
\* The local hook with every event that writes a roster entry: snapshots, the
\* membership and offer events that add and remove single entries, remote
\* tracks and media status updates.
NextEntries ==
    \/ Join(Local)
    \/ Leave(Local)
    \/ EnvExistingUsers
    \/ EnvUserJoined
    \/ EnvOffer
    \/ EnvUserLeft
    \/ EnvMediaStatusUpdate
    \/ ResumeOffer(Local)
    \/ \E i \in 1..Len(conns) : OpSucceeds(i)
    \/ \E i \in 1..Len(conns) : RemoteTrack(i)

SpecEntries == Init /\ [][NextEntries]_vars

\* ---------------------------------------------------------------- the media of the local hook
\* The local hook with the swaps of the outgoing video track and the changes
\* of connection state, between the events that create and remove PeerLinks.
NextMedia ==
    \/ Join(Local)
    \/ Leave(Local)
    \/ EnvUserJoined
    \/ EnvOffer
    \/ EnvUserLeft
    \/ ResumeOffer(Local)
    \/ \E i \in 1..Len(conns) : OpSucceeds(i)
    \/ \E newTrack \in Tracks : replaceTrack(Local, newTrack)
    \/ \E i \in 1..Len(conns) : \E st \in ConnectionStates : ConnectionStateChange(i, st)

SpecMedia == Init /\ [][NextMedia]_vars

\* ---------------------------------------------------------------- a room: every participant runs the hook
\* The relay is the spec's external collaborator: a reliable bus that delivers
\* the events of each ordered pair in order. On join-room it answers the
\* newcomer with existing-users and tells the members user-joined; it forwards
\* offer, answer and ice-candidate to their addressee; on leave-room it tells
\* the remaining members user-left.
ToRelay(u) == SelectSeq(sent, LAMBDA m : m.from = u /\ m.to = Relay)

Between(src, dst) == SelectSeq(sent, LAMBDA m : m.from = src /\ m.to = dst)

Members == {room[i].userId : i \in 1..Len(room)}

RelayJoin(u, m) ==
    /\ inbox' = [dst \in Users |->
                    IF dst = u
                    THEN Append(inbox[dst], Msg("existing-users", Relay, u, "", room))
                    ELSE IF dst \in Members
                    THEN Append(inbox[dst], Msg("user-joined", u, dst, m.name, <<>>))
                    ELSE inbox[dst]]
    /\ room' = Append(room, [userId |-> u, userName |-> m.name])

RelayLeave(u, m) ==
    /\ room' = SelectSeq(room, LAMBDA r : r.userId # u)
    /\ inbox' = [dst \in Users |->
                    IF dst \in Members \ {u}
                    THEN Append(inbox[dst], Msg("user-left", u, dst, "", <<>>))
                    ELSE inbox[dst]]

\* The relay takes the next join-room or leave-room of sender u
RelayProcess(u) ==
    /\ relayPos[u] < Len(ToRelay(u))
    /\ LET m == ToRelay(u)[relayPos[u] + 1]
       IN IF m.type = "join-room" THEN RelayJoin(u, m) ELSE RelayLeave(u, m)
    /\ relayPos' = [relayPos EXCEPT ![u] = @ + 1]
    /\ UNCHANGED <<hookVars, delivered, nEvents, histVars>>

\* socket.io hands the event to the handler registered for its name; an event
\* with no registered handler, or for a disconnected client, is dropped.
Receive(dst, m) ==
    IF connected[dst] /\ listeners[dst][m.type] > 0 THEN Dispatch(dst, m) ELSE UNCHANGED hookVars

\* The next membership event of the relay reaches dst
RelayNotify(dst) ==
    /\ inbox[dst] # <<>>
    /\ inbox' = [inbox EXCEPT ![dst] = Tail(@)]
    /\ Receive(dst, Head(inbox[dst]))
    /\ UNCHANGED <<relayPos, room, delivered, nEvents, histVars>>

\* The next offer, answer or ice-candidate that src addressed to dst reaches dst
RelayForward(dst, src) ==
    /\ delivered[dst][src] < Len(Between(src, dst))
    /\ delivered' = [delivered EXCEPT ![dst][src] = @ + 1]
    /\ Receive(dst, Between(src, dst)[delivered[dst][src] + 1])
    /\ UNCHANGED <<relayPos, room, inbox, nEvents, histVars>>

\* Participants enter one after another, in the order of JoinOrder (the hook
\* does not look at the ids, so one order stands for all): a participant joins
\* once the relay has taken the join-room of everyone before.
JoinOrder == <<"A", "B", "C">>

RoomJoin(k) ==
    /\ \A j \in 1..(k - 1) : JoinOrder[j] \in Members
    /\ relayPos[JoinOrder[k]] = 0
    /\ Join(JoinOrder[k])

NextRoom ==
    \/ \E k \in 1..Len(JoinOrder) : RoomJoin(k)
    \/ \E u \in Users : RelayProcess(u)
    \/ \E dst \in Users : RelayNotify(dst)
    \/ \E dst \in Users : \E src \in Users : RelayForward(dst, src)
    \/ \E u \in Users : ResumeOffer(u)
    \/ \E i \in 1..Len(conns) : OpSucceeds(i)

SpecRoom == Init /\ [][NextRoom]_vars

\* The room with its scheduling: the relay is reliable, so an event it holds
\* for a connected client is delivered; a continuation that is ready runs; an
\* operation of an open connection settles.
RoomProgress ==
    \/ \E u \in Users : RelayProcess(u)
    \/ \E dst \in Users : RelayNotify(dst)
    \/ \E dst \in Users : \E src \in Users : RelayForward(dst, src)
    \/ \E u \in Users : ResumeOffer(u)
    \/ \E i \in 1..Len(conns) : OpSucceeds(i)

\* Nothing is on its way: the relay has passed on every message and every
\* membership event, and no continuation or operation is pending
Settled ==
    /\ \A u \in Users : inbox[u] = <<>> /\ relayPos[u] = Len(ToRelay(u)) /\ resuming[u] = <<>>
    /\ \A dst \in Users : \A src \in Users : delivered[dst][src] = Len(Between(src, dst))
    /\ \A i \in 1..Len(conns) : conns[i].chain = <<>>

\* Participants join one after another: each once the room has settled
RoomJoinSettled(k) == Settled /\ RoomJoin(k)

NextRoomLive ==
    \/ \E k \in 1..Len(JoinOrder) : RoomJoinSettled(k)
    \/ \E u \in Users : RelayProcess(u)
    \/ \E dst \in Users : RelayNotify(dst)
    \/ \E dst \in Users : \E src \in Users : RelayForward(dst, src)
    \/ \E u \in Users : ResumeOffer(u)
    \/ \E i \in 1..Len(conns) : OpSucceeds(i)

SpecRoomLive == Init /\ [][NextRoomLive]_vars /\ WF_vars(RoomProgress)

\* ================================================================ claims
Keys(me) == {id \in Users : peersRef[me][id] # NoConn}

OpenTo(me, id) ==
    {i \in 1..Len(conns) : conns[i].owner = me /\ conns[i].peer = id /\ IsOpen(conns[i])}

Count(type, from, to) ==
    Len(SelectSeq(sent, LAMBDA m : m.type = type /\ m.from = from /\ m.to = to))

UserJoinedStep(id) == EnvDeliver(Msg("user-joined", id, Local, NameOf(id), <<>>))
OfferStep(id) == EnvDeliver(Msg("offer", id, Local, NameOf(id), <<>>))
AnswerStep(id) == EnvDeliver(Msg("answer", id, Local, "", <<>>))
IceCandidateStep(id) == EnvDeliver(Msg("ice-candidate", id, Local, "", <<>>))

\* ---------------------------------------------------------------- C1
OneLinkPerId ==
    \A me \in Users : \A id \in Users :
        /\ Cardinality(OpenTo(me, id)) <= 1
        /\ peersRef[me][id] # NoConn =>
              /\ conns[peersRef[me][id]].owner = me
              /\ conns[peersRef[me][id]].peer = id

CreationIsNoOpOnExisting ==
    /\ \A me \in Users : \A id \in Users :
          peersRef[me][id] # NoConn => peersRef'[me][id] \in {peersRef[me][id], NoConn}
    /\ \A i \in (Len(conns) + 1)..Len(conns') :
          peersRef[conns'[i].owner][conns'[i].peer] = NoConn
    /\ Len(conns') <= Len(conns) + 1

UserJoinedAddsItsId ==
    \A id \in Remotes : UserJoinedStep(id) => Keys(Local)' = Keys(Local) \cup {id}

\* C1: in every state each participant id has at most one open PeerLink and
\* the registry maps an id to a PeerLink of that id; no step replaces the
\* PeerLink of an id that has one or constructs a connection for such an id;
\* and a user-joined event for id X makes the registry's key set the old key
\* set plus X, so that user-joined events for distinct ids leave exactly
\* those ids as keys.
C1_RegistryOnePerId ==
    /\ []OneLinkPerId
    /\ [][CreationIsNoOpOnExisting /\ UserJoinedAddsItsId]_vars

\* A creation request reached the local hook for an id that had a PeerLink,
\* while the registry holds a PeerLink for each of two ids.
C1_Witness ==
    /\ last.type \in {"user-joined", "offer"}
    /\ last.had
    /\ Keys(Local) = Remotes

\* ---------------------------------------------------------------- C2
Pos(u) == CHOOSE i \in 1..Len(room) : room[i].userId = u

Before(a, b) == a \in Members /\ b \in Members /\ Pos(a) < Pos(b)

Quiescent ==
    /\ Members = Users
    /\ \A u \in Users : inbox[u] = <<>> /\ resuming[u] = <<>>
    /\ \A dst \in Users : \A src \in Users : delivered[dst][src] = Len(Between(src, dst))
    /\ \A i \in 1..Len(conns) : conns[i].chain = <<>>

\* C2: in a room whose participants join one after another, at most one offer
\* is ever sent between two participants, its author joined before its
\* addressee (the newcomer never offers to a participant present before it),
\* and once the room has settled every pair has had exactly one offer.
C2_OneOfferPerPair ==
    \A a \in Users : \A b \in Users \ {a} :
        /\ Count("offer", a, b) + Count("offer", b, a) <= 1
        /\ Count("offer", a, b) = 1 => Before(a, b)
        /\ Quiescent /\ Before(a, b) => Count("offer", a, b) = 1

\* Three participants have joined and every negotiation has run to its end.
C2_Witness == Quiescent /\ Len(conns) = 6

\* ---------------------------------------------------------------- C3
\* C3: a user-joined event for an id that has a PeerLink changes neither the
\* registry, nor the connections and their pending operations, nor the roster,
\* and emits nothing.
C3_DuplicateUserJoinedNoEffect ==
    [][\A id \in Remotes :
          UserJoinedStep(id) /\ peersRef[Local][id] # NoConn =>
              /\ peersRef' = peersRef
              /\ conns' = conns
              /\ participants' = participants
              /\ sent' = sent]_vars

\* ---------------------------------------------------------------- C4
\* C4: an id that a user-left event removed has no PeerLink and no roster
\* entry, whatever offer, answer or ice-candidate event of that id follows.
C4_DepartedIdIgnored ==
    \A id \in left :
        /\ peersRef[Local][id] = NoConn
        /\ id \notin RosterIds(participants[Local])

\* ---------------------------------------------------------------- C5
Owned(me) == {i \in 1..Len(conns) : conns[i].owner = me}

SessionLog(me) ==
    SelectSeq(sent, LAMBDA m : m.from = me /\ m.type \in {"join-room", "leave-room"})

Negotiation(log) == SelectSeq(log, LAMBDA m : m.type \in NegotiationTypes)

\* C6: from the state after leave until the next join, no step changes the
\* roster, the registry, a connection or a pending operation, lets a failure
\* escape or emits an offer, answer or ice-candidate message.
C6_NothingRunsAfterLeave ==
    [][~active[Local] =>
          /\ participants' = participants
          /\ peersRef' = peersRef
          /\ conns' = conns
          /\ uncaught' = uncaught
          /\ Negotiation(sent') = Negotiation(sent)]_vars

\* The local hook has left while a handler was suspended at an await: the
\* connection that leave closed still has its operation pending.
C6_Witness ==
    /\ ~active[Local]
    /\ left = {}
    /\ \E i \in Owned(Local) : ~IsOpen(conns[i]) /\ conns[i].chain # <<>>

\* ---------------------------------------------------------------- C7
\* C7: no rejection escapes a handler.
C7_NoFailureEscapes == \A u \in Users : uncaught[u] = 0

\* ---------------------------------------------------------------- C8
Responders(me, id) ==
    {i \in 1..Len(conns) : conns[i].owner = me /\ conns[i].peer = id /\ ~conns[i].initiator}

Initiators(me, id) ==
    {i \in 1..Len(conns) : conns[i].owner = me /\ conns[i].peer = id /\ conns[i].initiator}

RECURSIVE AnswersUpTo(_, _, _)
AnswersUpTo(me, id, n) ==
    IF n = 0 THEN 0
    ELSE AnswersUpTo(me, id, n - 1) +
         (IF conns[n].owner = me /\ conns[n].peer = id THEN conns[n].answers ELSE 0)

AnswersMade(me, id) == AnswersUpTo(me, id, Len(conns))

OfferCreatesResponder ==
    \A id \in Remotes :
        OfferStep(id) /\ peersRef[Local][id] = NoConn =>
            /\ Len(conns') = Len(conns) + 1
            /\ peersRef'[Local] = [peersRef[Local] EXCEPT ![id] = Len(conns')]
            /\ conns'[Len(conns')].peer = id
            /\ ~conns'[Len(conns')].initiator
            /\ sent' = sent

ResponderOnlyAnswers ==
    /\ \A i \in 1..Len(conns) :
          /\ ~conns[i].initiator =>
                /\ conns[i].localDesc # "offer"
                /\ \A k \in 1..Len(conns[i].chain) :
                      conns[i].chain[k].op \notin {"createOffer", "setLocalOffer"}
          /\ conns[i].answers <= conns[i].offers
          /\ conns[i].localDesc = "answer" => conns[i].offers >= 1 /\ conns[i].answers >= 1
    /\ \A id \in Remotes :
          /\ Count("answer", Local, id) = AnswersMade(Local, id)
          /\ Count("offer", Local, id) <= Cardinality(Initiators(Local, id))
    /\ \A k \in 1..Len(sent) : sent[k].type = "answer" => sent[k].to \in Remotes

\* C8: an offer from an id with no PeerLink creates one PeerLink for that id,
\* as non-initiator, and emits nothing in that step; a non-initiator PeerLink
\* never creates or applies a local offer; a PeerLink has made at most as many
\* answers as remote offers were applied to it, has applied a remote offer
\* before its local answer, and the answers emitted to an id are exactly the
\* answers made on the PeerLinks of that id; offers are emitted only for
\* PeerLinks created as initiator.
C8_OfferIsAnswered ==
    /\ []ResponderOnlyAnswers
    /\ [][OfferCreatesResponder]_vars

\* An offer created a non-initiator PeerLink, which applied it, made one
\* answer and emitted that answer to the offer's sender.
C8_Witness ==
    \E i \in Owned(Local) :
        /\ ~conns[i].initiator
        /\ conns[i].sig = "stable"
        /\ conns[i].remoteDesc = "offer" /\ conns[i].localDesc = "answer"
        /\ conns[i].offers = 1 /\ conns[i].answers = 1
        /\ Count("answer", Local, conns[i].peer) = 1
        /\ Count("offer", Local, conns[i].peer) = 0

\* ---------------------------------------------------------------- C9
AnswerIsHandedToTheLink ==
    \A id \in Remotes :
        AnswerStep(id) =>
            /\ sent' = sent
            /\ participants' = participants
            /\ peersRef' = peersRef
            /\ uncaught' = uncaught
            /\ IF peersRef[Local][id] = NoConn
               THEN conns' = conns
               ELSE conns' = [conns EXCEPT ![peersRef[Local][id]].chain =
                                 Append(@, Op("setRemoteAnswer", id))]

AnswerIsApplied ==
    \A i \in 1..Len(conns) :
        (/\ conns[i].chain # <<>>
         /\ Head(conns[i].chain).op = "setRemoteAnswer"
         /\ OpSucceeds(i)) =>
            /\ conns'[i].remoteDesc = "answer"
            /\ conns'[i].sig = "stable"
            /\ sent' = sent

\* C9: an answer from an id that has a PeerLink is handed to that PeerLink as
\* remote description and to no other, and nothing is emitted, neither when
\* the event arrives nor when the description has been applied; an answer
\* from an id with no PeerLink changes nothing and emits nothing.
C9_AnswerCompletes == [][AnswerIsHandedToTheLink /\ AnswerIsApplied]_vars

\* The answer of an id was applied to the PeerLink that had offered to it.
C9_Witness ==
    /\ last.type = "answer"
    /\ last.had
    /\ \E i \in Owned(Local) :
          /\ conns[i].peer = last.from
          /\ conns[i].initiator
          /\ conns[i].remoteDesc = "answer"
          /\ conns[i].sig = "stable"

\* ---------------------------------------------------------------- C10
\* C10: once the initiator has applied the answer to its offer, its PeerLink
\* and the PeerLink of the peer are both stable, and between the two exactly
\* one offer and one answer have been emitted, in all later states too.
C10_RoundTrip ==
    \A i \in 1..Len(conns) :
        conns[i].remoteDesc = "answer" =>
            LET a == conns[i].owner
                b == conns[i].peer
            IN /\ conns[i].sig = "stable"
               /\ peersRef[b][a] # NoConn
               /\ conns[peersRef[b][a]].sig = "stable"
               /\ conns[peersRef[b][a]].remoteDesc = "offer"
               /\ Count("offer", a, b) = 1 /\ Count("offer", b, a) = 0
               /\ Count("answer", b, a) = 1 /\ Count("answer", a, b) = 0

\* An initiator has applied the answer of its peer.
C10_Witness ==
    \E i \in 1..Len(conns) :
        /\ conns[i].initiator
        /\ conns[i].remoteDesc = "answer"
        /\ conns[i].sig = "stable"
        /\ conns[i].chain = <<>>

\* ---------------------------------------------------------------- C11
NegotiationPath ==
    {<<"new", "have-local-offer">>, <<"have-local-offer", "stable">>,
     <<"new", "have-remote-offer">>, <<"have-remote-offer", "stable">>}

RemoteOffersQueued(c) ==
    Len(SelectSeq(c.chain, LAMBDA o : o.op = "setRemoteOffer"))

\* C11: the negotiation state of a PeerLink changes only along
\* new -> have-local-offer -> stable or new -> have-remote-offer -> stable, or
\* to closed; and no step hands a remote offer to a PeerLink that is in
\* have-local-offer or stable.
C11_NegotiationPath ==
    [][\A i \in 1..Len(conns) :
          /\ \/ conns'[i].sig = conns[i].sig
             \/ conns'[i].sig = "closed"
             \/ <<conns[i].sig, conns'[i].sig>> \in NegotiationPath
          /\ conns[i].sig \in {"have-local-offer", "stable"} =>
                RemoteOffersQueued(conns'[i]) <= RemoteOffersQueued(conns[i])]_vars

\* ---------------------------------------------------------------- C12
NegotiationOps == {"createOffer", "setLocalOffer", "setRemoteOffer",
                   "createAnswer", "setLocalAnswer", "setRemoteAnswer"}

StepsInProgress(c) ==
    Len(SelectSeq(c.chain, LAMBDA o : o.op \in NegotiationOps))

\* C12: on every open PeerLink at most one negotiation step is in progress:
\* no handler starts a step on a PeerLink while another handler is suspended
\* at a step of the same PeerLink.
C12_OneStepAtATime ==
    \A i \in 1..Len(conns) : IsOpen(conns[i]) => StepsInProgress(conns[i]) <= 1

\* ---------------------------------------------------------------- C13
Status == connectionStatus[Local]

RejectedInSession == active[Local] /\ ~connected[Local]

EventHandled == nEvents' = nEvents + 1 /\ last'.type \in EventNames

StatusPath ==
    {<<"connecting", "waiting">>, <<"waiting", "joined">>,
     <<"connecting", "joined">>, <<"waiting", "rejected">>}

\* C14: connectionStatus changes only along connecting -> waiting,
\* waiting -> joined, connecting -> joined and waiting -> rejected.
C14_StatusPath == [][Status' = Status \/ <<Status, Status'>> \in StatusPath]_vars

\* ---------------------------------------------------------------- C15
ExistingUsersStep == nEvents' = nEvents + 1 /\ last'.type = "existing-users"

\* C15: an existing-users event handled while connectionStatus is connecting,
\* waiting or joined sets it to joined; one handled while it is rejected
\* leaves it rejected.
C15_SnapshotApproves ==
    [][ExistingUsersStep =>
          Status' = IF Status = "rejected" THEN "rejected" ELSE "joined"]_vars

\* ---------------------------------------------------------------- C16
\* C16: every run of the join effect emits join-room and leaves
\* connectionStatus equal to connecting.
C16_JoinStartsConnecting ==
    [][Join(Local) =>
          /\ Status' = "connecting"
          /\ sent' = Append(sent, Msg("join-room", Local, Relay, NameOf(Local), <<>>))]_vars

\* ---------------------------------------------------------------- C17
Decisions(log) == SelectSeq(log, LAMBDA m : m.type \in {"admit-user", "reject-user"})

Decided(id) ==
    \E k \in 1..Len(sent) :
        sent[k].type \in {"admit-user", "reject-user"} /\ sent[k].users[1].userId = id

\* C17: admit(id) or reject(id) on a pending request removes the requests of
\* id and emits one decision; admit(id) or reject(id) for an id that has been
\* decided and has no pending request changes nothing and emits no decision.
C17_SecondDecisionIsNoOp ==
    [][\A id \in Remotes :
          admitUser(Local, id) \/ rejectUser(Local, id) =>
              IF Pending(Local, id)
              THEN /\ ~Pending(Local, id)'
                   /\ Len(Decisions(sent')) = Len(Decisions(sent)) + 1
              ELSE Decided(id) =>
                       /\ pendingRequests' = pendingRequests
                       /\ Decisions(sent') = Decisions(sent)]_vars

\* ---------------------------------------------------------------- C18
JoinRequestStep(id) == EnvDeliver(Msg("join-request", id, Local, NameOf(id), <<>>))

OthersKept(id) ==
    /\ \A k \in 1..Len(pendingRequests'[Local]) : pendingRequests'[Local][k].userId # id
    /\ pendingRequests'[Local] =
           SelectSeq(pendingRequests[Local], LAMBDA req : req.userId # id)

IdsOf(l) == {l[i].userId : i \in 1..Len(l)}

\* C19: after an existing-users event the roster has exactly one entry for
\* each id the list names and no other entry, each with no stream and with
\* microphone and camera on.
C19_SnapshotRoster ==
    [][ExistingUsersStep =>
              LET r == participants'[Local]
                  l == last'.users
              IN /\ RosterIds(r) = IdsOf(l)
                 /\ Len(r) = Cardinality(IdsOf(l))
                 /\ \A i \in 1..Len(r) :
                       r[i].stream = NoStream /\ r[i].isMicOn /\ r[i].isCameraOn]_vars

\* A list that names one id twice left one entry in the roster.
C19_Witness ==
    /\ last.type = "existing-users"
    /\ Len(last.users) = 2
    /\ Len(participants[Local]) = 1
    /\ participants[Local][1].stream = NoStream

\* ---------------------------------------------------------------- C20
LastIndex(l, id) ==
    CHOOSE i \in 1..Len(l) : l[i].userId = id /\ \A j \in (i + 1)..Len(l) : l[j].userId # id

\* C20: after an existing-users event the entry of each id carries the name
\* of the last occurrence of the id in the list.
C20_LastNameKept ==
    [][ExistingUsersStep =>
          \A i \in 1..Len(participants'[Local]) :
              participants'[Local][i].name =
                  last'.users[LastIndex(last'.users, participants'[Local][i].id)].userName]_vars

\* ---------------------------------------------------------------- C21
Roster == participants[Local]

Entry(r, id) == r[CHOOSE k \in 1..Len(r) : r[k].id = id]

NoDuplicateIds ==
    \A me \in Users : \A i \in 1..Len(participants[me]) : \A j \in 1..Len(participants[me]) :
        i # j => participants[me][i].id # participants[me][j].id

MembershipOfKnownId ==
    /\ nEvents' = nEvents + 1
    /\ last'.type \in {"user-joined", "offer"}
    /\ last'.from \in RosterIds(Roster)

\* C21: no roster holds two entries with the same id, whatever user-joined,
\* offer, existing-users, user-left, media-status-update and remote-track
\* events have been handled; and a user-joined or offer event naming an id
\* that is in the roster leaves the roster as it is.
C21_RosterOneEntryPerId ==
    /\ []NoDuplicateIds
    /\ [][MembershipOfKnownId => participants' = participants]_vars

\* A user-joined or offer event named an id whose roster entry had a stream
\* and a microphone flag switched off, and the entry kept both.
C21_Witness ==
    /\ last.type \in {"user-joined", "offer"}
    /\ last.from \in RosterIds(Roster)
    /\ Entry(Roster, last.from).stream # NoStream
    /\ ~Entry(Roster, last.from).isMicOn

\* ---------------------------------------------------------------- C26
\* C26: a remote track on the PeerLink of id X gives the PeerLink's stream to
\* the roster entry of X and changes no other entry and no other field of
\* that entry; with no entry of X in the roster it changes nothing; it adds no
\* entry, and touches neither registry nor connections nor outgoing messages.
C26_RemoteTrackSetsItsStream ==
    [][\A i \in 1..Len(conns) :
          RemoteTrack(i) =>
              /\ Len(Roster') = Len(Roster)
              /\ \A k \in 1..Len(Roster) :
                    Roster'[k] = IF Roster[k].id = conns[i].peer
                                 THEN [Roster[k] EXCEPT !.stream = i]
                                 ELSE Roster[k]
              /\ peersRef' = peersRef /\ conns' = conns /\ sent' = sent]_vars

\* The roster holds two entries, one with the stream of its PeerLink and one
\* without a stream.
C26_Witness ==
    /\ Len(Roster) = 2
    /\ \E k \in 1..2 :
          /\ Roster[k].stream # NoStream
          /\ Roster[k].stream = peersRef[Local][Roster[k].id]
          /\ Roster[3 - k].stream = NoStream

\* ---------------------------------------------------------------- C27
MediaStatusStep(id, kind) == \E isOn \in BOOLEAN : EnvDeliver(MediaStatus(id, kind, isOn))

\* C27: an entry that enters the roster has microphone and camera on; the
\* microphone flag of an entry changes only in a media-status-update for its
\* id and kind audio, the camera flag only in one for its id and kind video;
\* and a media-status-update changes nothing but that flag of that entry.
C27_FlagsFollowStatusUpdates ==
    [][/\ \A id \in RosterIds(Roster') \ RosterIds(Roster) :
             Entry(Roster', id).isMicOn /\ Entry(Roster', id).isCameraOn
       /\ \A id \in RosterIds(Roster') \cap RosterIds(Roster) :
             /\ Entry(Roster', id).isMicOn # Entry(Roster, id).isMicOn =>
                   MediaStatusStep(id, "audio")
             /\ Entry(Roster', id).isCameraOn # Entry(Roster, id).isCameraOn =>
                   MediaStatusStep(id, "video")
       /\ \A id \in Remotes : \A isOn \in BOOLEAN :
             /\ EnvDeliver(MediaStatus(id, "audio", isOn)) =>
                   Roster' = [k \in 1..Len(Roster) |->
                                 IF Roster[k].id = id
                                 THEN [Roster[k] EXCEPT !.isMicOn = isOn] ELSE Roster[k]]
             /\ EnvDeliver(MediaStatus(id, "video", isOn)) =>
                   Roster' = [k \in 1..Len(Roster) |->
                                 IF Roster[k].id = id
                                 THEN [Roster[k] EXCEPT !.isCameraOn = isOn] ELSE Roster[k]]]_vars

\* ---------------------------------------------------------------- C24
CandidatesQueued(c) == Len(SelectSeq(c.chain, LAMBDA o : o.op = "addIceCandidate"))

CandidateGoesToItsLinkOnly ==
    \A id \in Remotes :
        IceCandidateStep(id) =>
            /\ participants' = participants
            /\ peersRef' = peersRef
            /\ sent' = sent
            /\ resuming' = resuming
            /\ IF peersRef[Local][id] = NoConn
               THEN conns' = conns
               ELSE conns' = [conns EXCEPT ![peersRef[Local][id]].chain =
                                 Append(@, Op("addIceCandidate", id))]

NoCandidateWaitsForALink ==
    /\ \A i \in (Len(conns) + 1)..Len(conns') :
          conns'[i].cands = 0 /\ CandidatesQueued(conns'[i]) = 0
    /\ \A i \in 1..Len(conns) :
          /\ conns'[i].cands > conns[i].cands =>
                /\ conns'[i].cands = conns[i].cands + 1
                /\ CandidatesQueued(conns'[i]) = CandidatesQueued(conns[i]) - 1
          /\ CandidatesQueued(conns'[i]) > CandidatesQueued(conns[i]) =>
                IceCandidateStep(conns[i].peer) /\ peersRef[Local][conns[i].peer] = i

\* C24: an ice-candidate event from an id with no PeerLink changes neither
\* registry, roster, connections nor outgoing messages and queues nothing; a
\* PeerLink starts with no candidate applied or waiting, and a candidate
\* reaches a PeerLink only through an ice-candidate event of its id that
\* arrives while the PeerLink is in the registry; such an event queues one
\* candidate on that PeerLink and on no other.
C24_CandidateWithoutLinkDropped ==
    [][CandidateGoesToItsLinkOnly /\ NoCandidateWaitsForALink]_vars

\* A candidate was applied to the PeerLink of its id, and the last event was
\* a candidate from an id that had no PeerLink.
C24_Witness ==
    /\ last.type = "ice-candidate"
    /\ ~last.had
    /\ peersRef[Local][last.from] = NoConn
    /\ \E i \in Registered(Local) : conns[i].cands = 1

\* ---------------------------------------------------------------- C25
NewMessages == SubSeq(sent', Len(sent) + 1, Len(sent'))

CandidateIsForwarded ==
    \A i \in 1..Len(conns) :
        LocalCandidate(i) =>
            /\ Len(NewMessages) = 1
            /\ NewMessages[1].type = "ice-candidate"
            /\ NewMessages[1].from = conns[i].owner
            /\ NewMessages[1].to = conns[i].peer

AnswerGoesToTheOfferer ==
    \A k \in 1..Len(NewMessages) :
        NewMessages[k].type = "answer" =>
            \E i \in 1..Len(conns) :
                /\ conns[i].owner = NewMessages[k].from
                /\ conns[i].peer = NewMessages[k].to
                /\ conns[i].remoteDesc = "offer"
                /\ conns[i].offers >= 1
                /\ conns'[i].answers = conns[i].answers + 1

\* C25: each local candidate of the PeerLink of id X is emitted as one
\* ice-candidate message addressed to X; each answer is emitted in the step
\* in which a PeerLink applies its local answer, and is addressed to the id
\* of that PeerLink, whose offer the PeerLink had applied.
C25_AddressedToThePeer == [][CandidateIsForwarded /\ AnswerGoesToTheOfferer]_vars

\* The local hook answered the offer of an id and forwarded a candidate of
\* that PeerLink, both to that id and nothing to the other.
C25_Witness ==
    \E id \in Remotes :
        /\ Count("answer", Local, id) = 1
        /\ Count("ice-candidate", Local, id) >= 1
        /\ \A other \in Remotes \ {id} :
              Count("answer", Local, other) = 0 /\ Count("ice-candidate", Local, other) = 0

\* ---------------------------------------------------------------- C28
\* C28: every offer the local hook emits carries the local user's display
\* name.
C28_OfferCarriesLocalName ==
    \A k \in 1..Len(sent) :
        sent[k].type = "offer" /\ sent[k].from = Local => sent[k].name = NameOf(Local)

\* ---------------------------------------------------------------- C29
InitiatorStepFails(i) ==
    /\ conns[i].chain # <<>>
    /\ Head(conns[i].chain).op \in {"createOffer", "setLocalOffer"}
    /\ OpFails(i)

\* C29: when createOffer or the application of the local offer fails, the
\* PeerLink is closed and leaves the registry.
C29_FailedLinkIsRemoved ==
    [][\A i \in 1..Len(conns) :
          InitiatorStepFails(i) =>
              /\ ~IsOpen(conns'[i])
              /\ peersRef'[conns[i].owner][conns[i].peer] = NoConn]_vars

\* ---------------------------------------------------------------- C22
SwapKeepsLinks ==
    \A newTrack \in Tracks :
        replaceTrack(Local, newTrack) =>
            /\ peersRef' = peersRef
            /\ Len(conns') = Len(conns)
            /\ \A i \in 1..Len(conns) :
                  /\ IsOpen(conns'[i]) = IsOpen(conns[i])
                  /\ conns'[i].sig = conns[i].sig
                  /\ conns'[i].chain = conns[i].chain
                  /\ i \in Registered(Local) => conns'[i].video = newTrack
            /\ sent' = sent
            /\ participants' = participants

ScreenThenCamera == last.type = "replace-track" /\ last.from = "camera" /\ last.had

\* C22: a replaceTrack call leaves the registry as it is, closes and creates
\* no connection, starts no negotiation step and emits nothing, and makes its
\* track the outgoing video track of every PeerLink of the registry; after
\* replaceTrack(screen) followed at once by replaceTrack(camera) every PeerLink
\* of the registry is open and sends the camera track.
C22_SwapWithoutRenegotiation ==
    /\ [][SwapKeepsLinks]_vars
    /\ [](ScreenThenCamera =>
             \A i \in Registered(Local) : IsOpen(conns[i]) /\ conns[i].video = "camera")

\* replaceTrack(screen) and then replaceTrack(camera) ran with a PeerLink in
\* the registry.
C22_Witness ==
    /\ ScreenThenCamera
    /\ Registered(Local) # {}
    /\ \A i \in Registered(Local) : IsOpen(conns[i]) /\ conns[i].video = "camera"

\* ---------------------------------------------------------------- C23
\* C23: every PeerLink of the registry sends the video track passed to
\* replaceTrack last (the camera track before the first call).
C23_OneOutgoingTrack ==
    \A i \in Registered(Local) : conns[i].video = outgoing[Local]

\* ---------------------------------------------------------------- C30
Degraded == {"failed", "disconnected"}

DegradationChangesNothing ==
    \A i \in 1..Len(conns) : \A st \in Degraded :
        ConnectionStateChange(i, st) =>
            /\ peersRef' = peersRef
            /\ participants' = participants
            /\ sent' = sent
            /\ uncaught' = uncaught
            /\ Len(conns') = Len(conns)
            /\ IsOpen(conns'[i])
            /\ conns'[i].chain = conns[i].chain

UserLeftStep(id) == EnvDeliver(Msg("user-left", id, Local, NameOf(id), <<>>))

DepartureStillCleans ==
    \A id \in Remotes :
        UserLeftStep(id) /\ peersRef[Local][id] # NoConn =>
            /\ ~IsOpen(conns'[peersRef[Local][id]])
            /\ peersRef'[Local][id] = NoConn
            /\ id \notin RosterIds(Roster')
            /\ uncaught' = uncaught

UserLeftRemovesItsId ==
    \A id \in Remotes :
        UserLeftStep(id) =>
            /\ peersRef'[Local] = [peersRef[Local] EXCEPT ![id] = NoConn]
            /\ Len(conns') = Len(conns)
            /\ \A i \in 1..Len(conns) :
                  IF i = peersRef[Local][id]
                  THEN ~IsOpen(conns'[i])
                  ELSE conns'[i] = conns[i]
            /\ Roster' = SelectSeq(Roster, LAMBDA p : p.id # id)
            /\ sent' = sent
            /\ (peersRef[Local][id] = NoConn /\ id \notin RosterIds(Roster)) =>
                  /\ participants' = participants
                  /\ peersRef' = peersRef
                  /\ conns' = conns

\* C31: a user-left event for id X closes the PeerLink of X if the registry
\* holds one, removes X from the registry and the entry of X from the roster,
\* leaves the PeerLinks and the roster entries of every other id as they
\* were, in their order, and emits nothing; for an id that is in neither
\* registry nor roster it changes nothing.
C31_UserLeftRemovesOnlyItsId == [][UserLeftRemovesItsId]_vars

\* A user-left event removed the PeerLink and the entry of one id while the
\* other id keeps its open PeerLink and its roster entry with its stream.
C31_Witness ==
    /\ last.type = "user-left"
    /\ last.had
    /\ peersRef[Local][last.from] = NoConn
    /\ last.from \notin RosterIds(Roster)
    /\ \E other \in Remotes \ {last.from} :
          /\ peersRef[Local][other] # NoConn
          /\ IsOpen(conns[peersRef[Local][other]])
          /\ other \in RosterIds(Roster)
          /\ Entry(Roster, other).stream = peersRef[Local][other]

\* ---------------------------------------------------------------- C32
StableLink(a, b) == peersRef[a][b] # NoConn /\ conns[peersRef[a][b]].sig = "stable"

FullMesh == \A a \in Users : \A b \in Users \ {a} : StableLink(a, b)

\* C32: with a reliable relay that keeps the order of each pair, no failing
\* negotiation step and no departure, once every participant has joined the
\* room, eventually each participant holds a stable PeerLink for each of the
\* others, and keeps it.
C32_FullMeshEventually == (Members = Users) ~> []FullMesh

\* With joins at any moment: a room of every participant in which nothing is
\* on its way is fully meshed.
SettledRoomIsMeshed == (Members = Users /\ Settled) => FullMesh

\* Every participant is in the room and holds a stable PeerLink for each of
\* the others.
C32_Witness == Members = Users /\ FullMesh

\* ---------------------------------------------------------------- C33
RegisteredAreOpen ==
    \A me \in Users : \A id \in Users :
        peersRef[me][id] # NoConn => IsOpen(conns[peersRef[me][id]])

ClosedInTheStepThatRemoves ==
    \A i \in 1..Len(conns) :
        IsOpen(conns[i]) /\ ~IsOpen(conns'[i]) =>
            /\ peersRef[conns[i].owner][conns[i].peer] = i
            /\ peersRef'[conns[i].owner][conns[i].peer] = NoConn
            /\ \/ nEvents' = nEvents + 1 /\ last'.type = "user-left" /\ last'.from = conns[i].peer
               \/ active[conns[i].owner] /\ ~active'[conns[i].owner] /\ Keys(conns[i].owner)' = {}

\* C33: every connection the registry holds is open; a connection is closed
\* only in the step of a user-left event of its id, which removes it from the
\* registry, or of a leave, which clears the registry.
C33_RegisteredLinksAreOpen ==
    /\ []RegisteredAreOpen
    /\ [][ClosedInTheStepThatRemoves]_vars

\* A user-left event closed the PeerLink of one id while the registry holds
\* the open PeerLink of another.
C33_Witness ==
    /\ last.type = "user-left" /\ last.had
    /\ \E i \in Owned(Local) : ~IsOpen(conns[i]) /\ conns[i].peer = last.from
    /\ Registered(Local) # {}
    /\ \A i \in Registered(Local) : IsOpen(conns[i])
    /\ active[Local]

\* ---------------------------------------------------------------- C34
OpenAreRegistered ==
    \A i \in 1..Len(conns) :
        IsOpen(conns[i]) => peersRef[conns[i].owner][conns[i].peer] = i

EntryLeavesClosed ==
    \A me \in Users : \A id \in Users :
        (peersRef[me][id] # NoConn /\ peersRef'[me][id] # peersRef[me][id]) =>
            ~IsOpen(conns'[peersRef[me][id]])

\* C34: every connection createPeerConnection has constructed is in the
\* registry under its id or is closed; and whenever the registry entry of an
\* id changes or goes, the connection it held is closed.
C34_NoConnectionLeaks ==
    /\ []OpenAreRegistered
    /\ [][EntryLeavesClosed]_vars

\* The local hook has left: of its two connections a user-left event had
\* closed one and the leave closed the other.
C34_Witness ==
    /\ ~active[Local]
    /\ left # {}
    /\ Cardinality(Owned(Local)) = 2
    /\ \A i \in Owned(Local) : ~IsOpen(conns[i])

\* ---------------------------------------------------------------- C35
\* C35: in every state each id that has a PeerLink in the registry of a
\* participant has an entry in the roster of that participant.
C35_RegistryWithinRoster ==
    \A me \in Users : Keys(me) \subseteq RosterIds(participants[me])

\* ---------------------------------------------------------------- C36
CreationIsGated == Len(conns') > Len(conns) => Status = "joined"

EmissionIsGated ==
    \A k \in 1..Len(NewMessages) :
        NewMessages[k].type \in {"offer", "answer"} => Status = "joined"

\* C36: a PeerLink is created, and an offer or an answer is emitted, only
\* while connectionStatus is joined: a user-joined or offer event handled
\* while it is connecting, waiting or rejected creates no PeerLink.
C36_GateGatesNegotiation == [][CreationIsGated /\ EmissionIsGated]_vars

\* ---------------------------------------------------------------- C37
UserLeftEvent(id) == nEvents' = nEvents + 1 /\ last'.type = "user-left" /\ last'.from = id

StreamIsKept ==
    \A id \in RosterIds(Roster) :
        Entry(Roster, id).stream # NoStream =>
            \/ UserLeftEvent(id)
            \/ id \in RosterIds(Roster') /\ Entry(Roster', id).stream # NoStream

SnapshotKeepsEntries ==
    ExistingUsersStep =>
        \A id \in RosterIds(Roster) \cap IdsOf(last'.users) :
            /\ id \in RosterIds(Roster')
            /\ Entry(Roster', id).stream = Entry(Roster, id).stream
            /\ Entry(Roster', id).isMicOn = Entry(Roster, id).isMicOn
            /\ Entry(Roster', id).isCameraOn = Entry(Roster, id).isCameraOn

\* C37: a roster entry that has a stream keeps a stream until a user-left
\* event removes the entry; and an existing-users event that names an id of
\* the roster leaves the stream and the microphone and camera flags of its
\* entry as they were.
C37_EntriesSurviveSnapshots == [][StreamIsKept /\ SnapshotKeepsEntries]_vars

\* ---------------------------------------------------------------- C38
DecisionOf(id) == last.type \in {"admit-user", "reject-user"} /\ last.from = id

RequestsOf(reqs, id) == Len(SelectSeq(reqs, LAMBDA req : req.userId = id))

\* C38: when admit(id) or reject(id) has returned, the pending list holds no
\* request of id, however many join-request events of id had been handled
\* before the call.
C38_DecisionRemovesEveryRequest ==
    \A id \in Remotes : DecisionOf(id) => RequestsOf(pendingRequests[Local], id) = 0

\* A decision on an id removed the two requests of that id.
C38_Witness ==
    \E id \in Remotes :
        /\ DecisionOf(id)
        /\ RequestsOf(last.users, id) = 2
        /\ RequestsOf(pendingRequests[Local], id) = 0

\* ---------------------------------------------------------------- C39
\* C39: the pending list holds at most one request of each user id.
C39_OneRequestPerUser ==
    \A me \in Users : \A id \in Users : RequestsOf(pendingRequests[me], id) <= 1

\* ---------------------------------------------------------------- C40
\* C40: while the join effect of a participant is mounted exactly one handler
\* is registered for each signaling event name, and none when it is not, also
\* after a leave followed by another join; so an event is handed to one
\* handler.
C40_OneHandlerPerEvent ==
    \A me \in Users : \A e \in EventNames :
        listeners[me][e] = IF active[me] THEN 1 ELSE 0

\* The local hook has joined, left and joined again.
C40_Witness ==
    /\ active[Local]
    /\ Len(SessionLog(Local)) = 3
    /\ \A e \in EventNames : listeners[Local][e] = 1

====
